---- MODULE Spec2Model ----
(***************************************************************************)
(* Model of src/variableInputTX.c: the RTT-fed frame builder               *)
(* (update_tx_msg) and the bring-up + transmit loop (app_main) of the      *)
(* DW3000 "simple TX" example.  One control thread (pc) plus the radio     *)
(* device, which raises IDLE_RC and the TXFRS status bit on its own.       *)
(***************************************************************************)
EXTENDS Integers, Sequences, FiniteSets, TLC

(* ------------------------------------------------------------------ *)
(* Program constants                                                   *)
(* ------------------------------------------------------------------ *)
TX_MSG_SIZE == 12                  \* static uint8_t tx_msg[12]
BLINK_FRAME_SN_IDX == 1
TX_DELAY_MS == 10
FCS_LEN == 2
READY_TAG == 197                   \* 0xc5
INPUT_BUFFER_SIZE == TX_MSG_SIZE - 1   \* char input_buffer[sizeof(tx_msg) - 1]
RTT_READ_SIZE == TX_MSG_SIZE - 2       \* SEGGER_RTT_Read(0, input_buffer, sizeof(tx_msg) - 2)
FRAME_LENGTH == TX_MSG_SIZE + FCS_LEN  \* #define FRAME_LENGTH (sizeof(tx_msg) + FCS_LEN)
DWT_SUCCESS == 0
DWT_ERROR == -1

(* ------------------------------------------------------------------ *)
(* Bounds of the model                                                 *)
(* ------------------------------------------------------------------ *)
MaxExtra == 5        \* pending input lengths range over 0 .. RTT_READ_SIZE + MaxExtra
MaxCycles == 257     \* at most this many reads deliver data (enough for 255 -> 0)
MaxIdleRun == 2      \* consecutive idle iterations are counted up to this many

Byte == 0..255
BaseA == 65          \* 'A': inputs of every length start with it
BaseHigh == 250      \* inputs with bytes above 127 and a zero byte (250 .. 255, 0, 1 ..)
Garbage == {0, 238}  \* what an uninitialised scratch byte may hold

\* the pending input of n bytes starting with byte b
InputOf(n, b) == [j \in 1..n |-> (b + j - 1) % 256]

\* what may be pending in the RTT down-buffer when update_tx_msg reads it
PendingInputs ==
    { InputOf(n, BaseA) : n \in 0..(RTT_READ_SIZE + MaxExtra) }
        \cup { InputOf(n, BaseHigh) : n \in {8, RTT_READ_SIZE + MaxExtra} }

VARIABLES
    pc,            \* position of app_main
    tx_msg,        \* the 12-byte frame, indices 0..11
    rtt_in,        \* bytes pending in RTT down-buffer 0 at the last read
    rtt_req,       \* BufferSize argument of the last SEGGER_RTT_Read
    bytes_read,    \* its result
    fwrites,       \* frame indices written by the last update_tx_msg
    sreads,        \* scratch indices read by the last update_tx_msg
    gate,          \* tx_msg[0] as seen by `if (tx_msg[0] != 0)` in this iteration, -1 before it
    calls,         \* driver calls of bring-up, in order
    init_failed,   \* dwt_initialise has returned DWT_ERROR
    cfg_failed,    \* dwt_configure has returned non-zero
    cyc,           \* steps of the current loop iteration after the gate, in order
    idle_rc,       \* device: has reached IDLE_RC
    tx_active,     \* device: a started transmission has not completed yet
    txfrs,         \* device: SYS_STATUS.TXFRS
    tx_buffer,     \* device: last dwt_writetxdata, [offset, data]
    tx_fctrl,      \* device: last dwt_writetxfctrl, [len, offset, ranging]
    fresh,         \* a read delivered data since the last start of transmission
    nData,         \* number of reads that delivered data
    nStartTx,      \* number of dwt_starttx calls
    nDone,         \* number of completed transmit cycles
    idleRun        \* consecutive iterations that read no data and skipped the
                   \* transmit branch, counted up to MaxIdleRun

vars == << pc, tx_msg, rtt_in, rtt_req, bytes_read, fwrites, sreads,
           gate, calls, init_failed, cfg_failed, cyc, idle_rc, tx_active, txfrs, tx_buffer, tx_fctrl,
           fresh, nData, nStartTx, nDone, idleRun >>

frameVars == << tx_msg >>
ingestVars == << rtt_in, rtt_req, bytes_read, fwrites, sreads >>
deviceVars == << idle_rc, tx_active, txfrs, tx_buffer, tx_fctrl >>
countVars == << fresh, nData, nStartTx, nDone, idleRun >>
retVars == << init_failed, cfg_failed >>

\* device registers before anything was written to them
NoTxBuffer == [offset |-> 0, data |-> << >>]
NoTxFctrl == [len |-> 0, offset |-> 0, ranging |-> 0]

Init ==
    /\ pc = "start"
    /\ tx_msg = [i \in 0..(TX_MSG_SIZE - 1) |-> 0]
    /\ rtt_in = << >>
    /\ rtt_req = 0
    /\ bytes_read = 0
    /\ fwrites = {}
    /\ sreads = {}
    /\ gate = -1
    /\ calls = << >>
    /\ init_failed = FALSE
    /\ cfg_failed = FALSE
    /\ cyc = << >>
    /\ idle_rc = FALSE
    /\ tx_active = FALSE
    /\ txfrs = FALSE
    /\ tx_buffer = NoTxBuffer
    /\ tx_fctrl = NoTxFctrl
    /\ fresh = FALSE
    /\ nData = 0
    /\ nStartTx = 0
    /\ nDone = 0
    /\ idleRun = 0

(* ------------------------------------------------------------------ *)
(* Bring-up (app_main, lines 104-139)                                  *)
(* ------------------------------------------------------------------ *)

\* the sequence number set at start-up
INITIAL_SN == 0

\* tx_msg[1] = 0; LOG_INF(APP_NAME); port_set_dw_ic_spi_fastrate();
AppStart ==
    /\ pc = "start"
    /\ tx_msg' = [tx_msg EXCEPT ![BLINK_FRAME_SN_IDX] = INITIAL_SN]
    /\ calls' = Append(calls, "spi_fastrate")
    /\ pc' = "reset"
    /\ UNCHANGED << ingestVars, gate, cyc, deviceVars, countVars, retVars >>

\* reset_DWIC(): the device leaves IDLE_RC and drops status and TX state
ResetDWIC ==
    /\ pc = "reset"
    /\ calls' = Append(calls, "reset")
    /\ idle_rc' = FALSE
    /\ tx_active' = FALSE
    /\ txfrs' = FALSE
    /\ tx_buffer' = NoTxBuffer
    /\ tx_fctrl' = NoTxFctrl
    /\ pc' = "sleep2"
    /\ UNCHANGED << frameVars, ingestVars, gate, cyc, countVars, retVars >>

\* Sleep(2)
SleepStartup ==
    /\ pc = "sleep2"
    /\ calls' = Append(calls, "sleep")
    /\ pc' = "idlewait"
    /\ UNCHANGED << frameVars, ingestVars, gate, cyc, deviceVars, countVars, retVars >>

\* variant: the idle state is queried once and its answer is not waited for
CheckIdleRcNoWait ==
    /\ pc = "idlewait"
    /\ calls' = IF calls # << >> /\ calls[Len(calls)] = "checkidlerc"
                THEN calls ELSE Append(calls, "checkidlerc")
    /\ pc' = "initialise"
    /\ UNCHANGED << frameVars, ingestVars, gate, cyc, deviceVars, countVars, retVars >>

\* while (!dwt_checkidlerc()) { };  one evaluation of the loop condition
CheckIdleRc ==
    /\ pc = "idlewait"
    /\ calls' = IF calls # << >> /\ calls[Len(calls)] = "checkidlerc"
                THEN calls ELSE Append(calls, "checkidlerc")
    /\ pc' = IF idle_rc THEN "initialise" ELSE "idlewait"
    /\ UNCHANGED << frameVars, ingestVars, gate, cyc, deviceVars, countVars, retVars >>

\* variant: configuration is skipped after a successful initialisation
AfterInitialiseSkipConfigure(r) == IF r = DWT_ERROR THEN "halt_init" ELSE "configuretxrf"

\* where app_main continues after dwt_initialise returned r
AfterInitialise(r) == IF r = DWT_ERROR THEN "halt_init" ELSE "setleds"

\* if (dwt_initialise(DWT_DW_INIT) == DWT_ERROR) { LOG_ERR; while (1) { }; }
Initialise ==
    /\ pc = "initialise"
    /\ \E r \in {DWT_SUCCESS, DWT_ERROR} :
          /\ init_failed' = (r = DWT_ERROR)
          /\ pc' = AfterInitialise(r)
    /\ calls' = Append(calls, "initialise")
    /\ UNCHANGED << frameVars, ingestVars, gate, cyc, deviceVars, countVars, cfg_failed >>

\* dwt_setleds(DWT_LEDS_ENABLE | DWT_LEDS_INIT_BLINK)
SetLeds ==
    /\ pc = "setleds"
    /\ calls' = Append(calls, "setleds")
    /\ pc' = "configure"
    /\ UNCHANGED << frameVars, ingestVars, gate, cyc, deviceVars, countVars, retVars >>

\* variant: a rejected configuration does not stop bring-up
AfterConfigureNoHalt(r) == "configuretxrf"

\* where app_main continues after dwt_configure returned r
AfterConfigure(r) == IF r # 0 THEN "halt_cfg" ELSE "configuretxrf"

\* if (dwt_configure(&config)) { LOG_ERR; while (1) { }; }
Configure ==
    /\ pc = "configure"
    /\ \E r \in {DWT_SUCCESS, DWT_ERROR} :
          /\ cfg_failed' = (r # 0)
          /\ pc' = AfterConfigure(r)
    /\ calls' = Append(calls, "configure")
    /\ UNCHANGED << frameVars, ingestVars, gate, cyc, deviceVars, countVars, init_failed >>

\* dwt_configuretxrf(&txconfig_options); LOG_INF("Sending started");
ConfigureTxRf ==
    /\ pc = "configuretxrf"
    /\ calls' = Append(calls, "configuretxrf")
    /\ pc' = "update"
    /\ UNCHANGED << frameVars, ingestVars, gate, cyc, deviceVars, countVars, retVars >>

\* while (1) { /* spin */ };  after INIT FAILED or CONFIG FAILED
Halt ==
    /\ pc \in {"halt_init", "halt_cfg"}
    /\ UNCHANGED vars

\* the device reaches IDLE_RC some time after the reset
DevIdle ==
    /\ "reset" \in { calls[j] : j \in 1..Len(calls) }
    /\ ~idle_rc
    /\ idle_rc' = TRUE
    /\ UNCHANGED << pc, frameVars, ingestVars, gate, calls, cyc, tx_active, txfrs,
                    tx_buffer, tx_fctrl, countVars, retVars >>

(* ------------------------------------------------------------------ *)
(* update_tx_msg (lines 74-97)                                         *)
(* ------------------------------------------------------------------ *)

Min(a, b) == IF a < b THEN a ELSE b

\* SEGGER_RTT_Read(0, buf, req): the possible results with `pending` in the
\* down-buffer.  It never blocks and delivers at most req bytes; with nothing
\* pending it reports 0, or a negative value for a failed read (the code
\* keeps the result in a signed int and tests it with > 0).
RttResults(pending, req) ==
    IF Len(pending) = 0 THEN {0, -1} ELSE {Min(Len(pending), req)}

\* the scratch buffer after the read: the k delivered bytes, the rest is
\* whatever the stack held (g)
ScratchAfterRead(pending, k, g) ==
    [i \in 0..(INPUT_BUFFER_SIZE - 1) |-> IF i < k THEN pending[i + 1] ELSE g]

\* variant: the loop runs one index past the frame (i <= sizeof(tx_msg))
LoopCondInclusive(i) == i <= TX_MSG_SIZE

\* for (int i = 2; i < sizeof(tx_msg); i++)
LoopCond(i) == i < TX_MSG_SIZE

\* variant: the copy stops one byte early (i <= bytes_read)
CopyCondShort(i, k) == i <= k

\* if (i <= bytes_read + 1)
CopyCond(i, k) == i <= k + 1

\* variant: an empty read is treated as data (bytes_read >= 0)
HasDataOrEmpty(k) == k >= 0

\* if (bytes_read > 0)
HasData(k) == k > 0

\* tx_msg[i] = v; a store outside the array is recorded and leaves the frame alone
StoreFrame(msg, i, v) == IF i \in DOMAIN msg THEN [msg EXCEPT ![i] = v] ELSE msg

\* input_buffer[j]; a load outside the array yields stack garbage
LoadScratch(buf, j, g) == IF j \in DOMAIN buf THEN buf[j] ELSE g

\* the for loop from index i on: msg is the frame, W the frame indices
\* stored so far, R the scratch indices loaded so far
RECURSIVE CopyLoop(_, _, _, _, _, _, _)
CopyLoop(i, msg, buf, k, g, W, R) ==
    IF ~LoopCond(i) THEN [msg |-> msg, W |-> W, R |-> R]
    ELSE IF CopyCond(i, k)
         THEN CopyLoop(i + 1, StoreFrame(msg, i, LoadScratch(buf, i - 2, g)),
                       buf, k, g, W \cup {i}, R \cup {i - 2})
         ELSE CopyLoop(i + 1, StoreFrame(msg, i, 0), buf, k, g, W \cup {i}, R)

\* variant: the tag is set outside the if, whether or not data was read
UpdateFrameTagAlways(msg, buf, k, g) ==
    IF HasData(k)
    THEN LET r == CopyLoop(2, msg, buf, k, g, {}, {})
         IN  [msg |-> StoreFrame(r.msg, 0, READY_TAG), W |-> r.W \cup {0}, R |-> r.R]
    ELSE [msg |-> StoreFrame(msg, 0, READY_TAG), W |-> {0}, R |-> {}]

\* variant: the copy loop starts at index 1 (int i = 1)
UpdateFrameFromOne(msg, buf, k, g) ==
    IF HasData(k)
    THEN LET r == CopyLoop(1, msg, buf, k, g, {}, {})
         IN  [msg |-> StoreFrame(r.msg, 0, READY_TAG), W |-> r.W \cup {0}, R |-> r.R]
    ELSE [msg |-> msg, W |-> {}, R |-> {}]

\* the body of update_tx_msg after the read returned k
UpdateFrame(msg, buf, k, g) ==
    IF HasData(k)
    THEN LET r == CopyLoop(2, msg, buf, k, g, {}, {})
         IN  [msg |-> StoreFrame(r.msg, 0, READY_TAG), W |-> r.W \cup {0}, R |-> r.R]
    ELSE [msg |-> msg, W |-> {}, R |-> {}]

\* update_tx_msg(), called at the top of the loop
UpdateTxMsg ==
    /\ pc = "update"
    /\ \E pending \in PendingInputs :
         /\ Len(pending) > 0 => nData < MaxCycles
         /\ \E k \in RttResults(pending, RTT_READ_SIZE) :
            \E g \in Garbage :
              LET buf == ScratchAfterRead(pending, k, g)
                  r == UpdateFrame(tx_msg, buf, k, g)
              IN  /\ rtt_in' = pending
                  /\ rtt_req' = RTT_READ_SIZE
                  /\ bytes_read' = k
                  /\ tx_msg' = r.msg
                  /\ fwrites' = r.W
                  /\ sreads' = r.R
                  /\ nData' = IF k > 0 THEN nData + 1 ELSE nData
                  /\ fresh' = IF k > 0 THEN TRUE ELSE fresh
                  /\ idleRun' = IF k > 0 THEN 0 ELSE idleRun
    /\ cyc' = << >>
    /\ gate' = -1
    /\ pc' = "check"
    /\ UNCHANGED << calls, deviceVars, nStartTx, nDone, retVars >>

(* ------------------------------------------------------------------ *)
(* The transmit loop (app_main, lines 142-174)                         *)
(* ------------------------------------------------------------------ *)

\* variant: the gate is inverted (tx_msg[0] == 0)
TagReadyInverted(tag) == tag = 0

\* variant: the gate is missing, every iteration transmits
TagReadyAlways(tag) == TRUE

\* if (tx_msg[0] != 0)
TagReady(tag) == tag # 0

\* the gate, and on the taken branch sprintf + LOG_HEXDUMP_INF
CheckTag ==
    /\ pc = "check"
    /\ gate' = tx_msg[0]
    /\ pc' = IF TagReady(tx_msg[0]) THEN "writetxdata" ELSE "update"
    /\ idleRun' = IF ~TagReady(tx_msg[0]) /\ bytes_read <= 0
                  THEN Min(idleRun + 1, MaxIdleRun) ELSE 0
    /\ UNCHANGED << frameVars, ingestVars, calls, cyc, deviceVars, fresh, nData, nStartTx,
                    nDone, retVars >>

\* dwt_writetxdata(FRAME_LENGTH - FCS_LEN, tx_msg, 0)
WriteTxData ==
    /\ pc = "writetxdata"
    /\ tx_buffer' = [offset |-> 0,
                     data |-> [j \in 1..(FRAME_LENGTH - FCS_LEN) |-> tx_msg[j - 1]]]
    /\ cyc' = Append(cyc, <<"writetxdata", FRAME_LENGTH - FCS_LEN>>)
    /\ pc' = "writetxfctrl"
    /\ UNCHANGED << frameVars, ingestVars, gate, calls, idle_rc, tx_active, txfrs,
                    tx_fctrl, countVars, retVars >>

\* variant: the frame length is programmed without the FCS bytes
WriteTxFctrlNoFcs ==
    /\ pc = "writetxfctrl"
    /\ tx_fctrl' = [len |-> FRAME_LENGTH - FCS_LEN, offset |-> 0, ranging |-> 0]
    /\ cyc' = Append(cyc, <<"writetxfctrl", FRAME_LENGTH>>)
    /\ pc' = "starttx"
    /\ UNCHANGED << frameVars, ingestVars, gate, calls, idle_rc, tx_active, txfrs,
                    tx_buffer, countVars, retVars >>

\* dwt_writetxfctrl(FRAME_LENGTH, 0, 0)
WriteTxFctrl ==
    /\ pc = "writetxfctrl"
    /\ tx_fctrl' = [len |-> FRAME_LENGTH, offset |-> 0, ranging |-> 0]
    /\ cyc' = Append(cyc, <<"writetxfctrl", FRAME_LENGTH>>)
    /\ pc' = "starttx"
    /\ UNCHANGED << frameVars, ingestVars, gate, calls, idle_rc, tx_active, txfrs,
                    tx_buffer, countVars, retVars >>

\* variant: the loop does not wait for TXFRS after starting the transmission
StartTxNoWait ==
    /\ pc = "starttx"
    /\ tx_active' = TRUE
    /\ cyc' = Append(cyc, <<"starttx", 0>>)
    /\ nStartTx' = nStartTx + 1
    /\ fresh' = FALSE
    /\ pc' = "clear"
    /\ UNCHANGED << frameVars, ingestVars, gate, calls, idle_rc, txfrs, tx_buffer,
                    tx_fctrl, nData, nDone, idleRun, retVars >>

\* dwt_starttx(DWT_START_TX_IMMEDIATE)
StartTx ==
    /\ pc = "starttx"
    /\ tx_active' = TRUE
    /\ cyc' = Append(cyc, <<"starttx", 0>>)
    /\ nStartTx' = nStartTx + 1
    /\ fresh' = FALSE
    /\ pc' = "poll"
    /\ UNCHANGED << frameVars, ingestVars, gate, calls, idle_rc, txfrs, tx_buffer,
                    tx_fctrl, nData, nDone, idleRun, retVars >>

\* variant: the loop condition lacks the negation and spins while TXFRS is set
PollTxfrsInverted ==
    /\ pc = "poll"
    /\ pc' = IF ~txfrs THEN "clear" ELSE "poll"
    /\ cyc' = IF ~txfrs THEN Append(cyc, <<"txfrs_seen", 0>>) ELSE cyc
    /\ UNCHANGED << frameVars, ingestVars, gate, calls, deviceVars, countVars, retVars >>

\* variant: the wait gives up after one poll, whether or not TXFRS is set
PollTxfrsTimeout ==
    /\ pc = "poll"
    /\ pc' = "clear"
    /\ cyc' = Append(cyc, <<"txfrs_seen", 0>>)
    /\ UNCHANGED << frameVars, ingestVars, gate, calls, deviceVars, countVars, retVars >>

\* while (!(dwt_read32bitreg(SYS_STATUS_ID) & SYS_STATUS_TXFRS_BIT_MASK)) { };
\* one evaluation of the loop condition
PollTxfrs ==
    /\ pc = "poll"
    /\ pc' = IF txfrs THEN "clear" ELSE "poll"
    /\ cyc' = IF txfrs THEN Append(cyc, <<"txfrs_seen", 0>>) ELSE cyc
    /\ UNCHANGED << frameVars, ingestVars, gate, calls, deviceVars, countVars, retVars >>

\* variant: the status write does not clear TXFRS (a zero is written)
ClearTxfrsNoClear ==
    /\ pc = "clear"
    /\ txfrs' = txfrs
    /\ cyc' = Append(cyc, <<"clear", 0>>)
    /\ pc' = "sleep"
    /\ UNCHANGED << frameVars, ingestVars, gate, calls, idle_rc, tx_active, tx_buffer,
                    tx_fctrl, countVars, retVars >>

\* dwt_write32bitreg(SYS_STATUS_ID, SYS_STATUS_TXFRS_BIT_MASK): write 1 to clear
ClearTxfrs ==
    /\ pc = "clear"
    /\ txfrs' = FALSE
    /\ cyc' = Append(cyc, <<"clear", 0>>)
    /\ pc' = "sleep"
    /\ UNCHANGED << frameVars, ingestVars, gate, calls, idle_rc, tx_active, tx_buffer,
                    tx_fctrl, countVars, retVars >>

\* Sleep(TX_DELAY_MS)
SleepDelay ==
    /\ pc = "sleep"
    /\ cyc' = Append(cyc, <<"sleep", TX_DELAY_MS>>)
    /\ pc' = "sn_inc"
    /\ UNCHANGED << frameVars, ingestVars, gate, calls, deviceVars, countVars, retVars >>

\* variant: the increment saturates at 255 instead of wrapping
IncU8Saturating(x) == IF x = 255 THEN 255 ELSE x + 1

\* uint8_t increment
IncU8(x) == (x + 1) % 256

\* variant: the increment hits byte 0 instead of BLINK_FRAME_SN_IDX
SnIncWrongIndex ==
    /\ pc = "sn_inc"
    /\ tx_msg' = [tx_msg EXCEPT ![0] = IncU8(tx_msg[0])]
    /\ cyc' = Append(cyc, <<"sn_inc", 0>>)
    /\ pc' = "tag_reset"
    /\ UNCHANGED << ingestVars, gate, calls, deviceVars, countVars, retVars >>

\* tx_msg[BLINK_FRAME_SN_IDX]++
SnInc ==
    /\ pc = "sn_inc"
    /\ tx_msg' = [tx_msg EXCEPT ![BLINK_FRAME_SN_IDX] = IncU8(tx_msg[BLINK_FRAME_SN_IDX])]
    /\ cyc' = Append(cyc, <<"sn_inc", 0>>)
    /\ pc' = "tag_reset"
    /\ UNCHANGED << ingestVars, gate, calls, deviceVars, countVars, retVars >>

\* variant: the tag is left ready after a transmitted cycle
KeptTag == READY_TAG

\* the tag after a transmitted cycle
ClearedTag == 0

\* tx_msg[0] = 0; and back to the top of while (1)
TagReset ==
    /\ pc = "tag_reset"
    /\ tx_msg' = [tx_msg EXCEPT ![0] = ClearedTag]
    /\ cyc' = Append(cyc, <<"tag_reset", 0>>)
    /\ nDone' = nDone + 1
    /\ pc' = "update"
    /\ UNCHANGED << ingestVars, gate, calls, deviceVars, fresh, nData, nStartTx, idleRun,
                    retVars >>

\* the device finishes the frame and raises TXFRS
DevTxDone ==
    /\ tx_active
    /\ tx_active' = FALSE
    /\ txfrs' = TRUE
    /\ UNCHANGED << pc, frameVars, ingestVars, gate, calls, cyc, idle_rc, tx_buffer,
                    tx_fctrl, countVars, retVars >>

Next ==
    \/ AppStart \/ ResetDWIC \/ SleepStartup \/ CheckIdleRc \/ Initialise
    \/ SetLeds \/ Configure \/ ConfigureTxRf \/ Halt \/ DevIdle
    \/ UpdateTxMsg \/ CheckTag \/ WriteTxData \/ WriteTxFctrl \/ StartTx
    \/ PollTxfrs \/ ClearTxfrs \/ SleepDelay \/ SnInc \/ TagReset \/ DevTxDone

Spec == Init /\ [][Next]_vars

\* the steps of the one control thread
Program ==
    \/ AppStart \/ ResetDWIC \/ SleepStartup \/ CheckIdleRc \/ Initialise
    \/ SetLeds \/ Configure \/ ConfigureTxRf \/ Halt
    \/ UpdateTxMsg \/ CheckTag \/ WriteTxData \/ WriteTxFctrl \/ StartTx
    \/ PollTxfrs \/ ClearTxfrs \/ SleepDelay \/ SnInc \/ TagReset

\* the thread keeps running, and a responsive device reaches IDLE_RC after
\* the reset and completes every started transmission
LiveSpec ==
    /\ Init /\ [][Next]_vars
    /\ WF_vars(Program)
    /\ WF_vars(DevIdle)
    /\ WF_vars(DevTxDone)

(* ------------------------------------------------------------------ *)
(* Properties                                                          *)
(* ------------------------------------------------------------------ *)

HaltPcs == {"halt_init", "halt_cfg"}
TxPcs == {"writetxdata", "writetxfctrl", "starttx", "poll", "clear", "sleep",
          "sn_inc", "tag_reset"}
LoopPcs == {"update", "check"} \cup TxPcs

\* the names of the steps logged in a sequence of <<name, argument>> entries
StepNames(log) == [j \in 1..Len(log) |-> log[j][1]]
HasStep(log, name) == \E j \in 1..Len(log) : log[j][1] = name

IsPrefix(s, t) == Len(s) <= Len(t) /\ \A j \in 1..Len(s) : s[j] = t[j]

\* C1 (transmit gating): in every iteration, dwt_writetxdata, dwt_writetxfctrl
\* and dwt_starttx are called if and only if tx_msg[0] was the ready sentinel
\* 0xC5 at the check made right after update_tx_msg returned.  A call of the
\* transmit primitive implies the gate saw 0xC5; a gate that saw 0xC5 puts
\* the loop on the transmit path, and when the iteration is over all three
\* calls have been made.
TransmitGating ==
    /\ (HasStep(cyc, "writetxdata") \/ HasStep(cyc, "writetxfctrl")
            \/ HasStep(cyc, "starttx") \/ pc \in TxPcs)
          => gate = READY_TAG
    /\ gate = READY_TAG => pc \in TxPcs \cup {"update"}
    /\ (gate = READY_TAG /\ pc = "update")
          => /\ HasStep(cyc, "writetxdata")
             /\ HasStep(cyc, "writetxfctrl")
             /\ HasStep(cyc, "starttx")
    /\ (gate # READY_TAG /\ gate # -1) => (pc = "update" /\ cyc = << >>)

\* C1 witness: an iteration whose gate saw the ready tag has transmitted
\* and returned to the top of the loop
TransmitGatingWitness ==
    /\ pc = "update"
    /\ gate = READY_TAG
    /\ HasStep(cyc, "starttx")
    /\ nStartTx = 2

IngestResult ==
    (pc = "check" /\ bytes_read > 0)
       => /\ \A j \in 1..bytes_read : tx_msg[j + 1] = rtt_in[j]
          /\ \A i \in (bytes_read + 2)..(TX_MSG_SIZE - 1) : tx_msg[i] = 0
          /\ tx_msg[0] = READY_TAG

\* C3 witness: "ABCDEFGH" was read: bytes 2..9 are A..H, bytes 10 and 11 are
\* zero, the tag is 0xC5
IngestResultWitness ==
    /\ pc = "check"
    /\ rtt_in = <<65, 66, 67, 68, 69, 70, 71, 72>>
    /\ bytes_read = 8
    /\ [i \in 2..9 |-> tx_msg[i]] = [i \in 2..9 |-> 63 + i]
    /\ tx_msg[10] = 0
    /\ tx_msg[11] = 0
    /\ tx_msg[0] = READY_TAG

\* C4 (no-op on empty input): a call of update_tx_msg whose read returns zero
\* or fewer bytes leaves every byte of the frame as it was.
NoOpOnEmpty ==
    [][(pc = "update" /\ pc' = "check" /\ bytes_read' <= 0) => tx_msg' = tx_msg]_vars

\* C4 witness: an empty read after a transmitted frame: payload and sequence
\* number of that frame are still in place
NoOpOnEmptyWitness ==
    /\ pc = "check"
    /\ bytes_read <= 0
    /\ rtt_in = << >>
    /\ tx_msg[2] = BaseA
    /\ tx_msg[BLINK_FRAME_SN_IDX] = 1
    /\ tx_msg[0] = 0

\* C5 (sequence monotonicity): after N completed transmit cycles tx_msg[1] is
\* (INITIAL_SN + N) mod 256 (one ahead between the increment and the end of
\* the cycle), and no halt state is entered once a cycle has completed; a
\* cycle that starts at 255 ends at 0.
SeqMonotonic ==
    /\ tx_msg[BLINK_FRAME_SN_IDX]
          = (INITIAL_SN + nDone + (IF pc = "tag_reset" THEN 1 ELSE 0)) % 256
    /\ nDone > 0 => pc \in LoopPcs

\* C5 witness: 256 cycles have completed and the sequence number has wrapped
\* from 255 to 0, the loop still running
SeqMonotonicWitness ==
    /\ nDone = 256
    /\ tx_msg[BLINK_FRAME_SN_IDX] = 0
    /\ tx_buffer.data[BLINK_FRAME_SN_IDX + 1] = 255
    /\ pc = "update"

\* C6 (single-shot ready flag): at every entry to update_tx_msg, the first
\* one after bring-up and each one after a cycle that transmitted, tx_msg[0]
\* reads 0.
SingleShotReady == pc = "update" => tx_msg[0] = 0

\* C6 witness: back at the entry to update_tx_msg after a cycle that
\* transmitted a ready frame
SingleShotReadyWitness ==
    /\ pc = "update"
    /\ gate = READY_TAG
    /\ nDone = 1
    /\ tx_buffer.data[1] = READY_TAG
    /\ tx_msg[0] = 0

\* C7 (a ready frame is never sent twice): the number of transmissions
\* started never exceeds the number of reads that returned data, and
\* whenever the loop is about to hand a frame to the radio a read has
\* returned data since the previous start of transmission.
NeverSentTwice ==
    /\ nStartTx <= nData
    /\ pc \in {"writetxdata", "writetxfctrl", "starttx"} => fresh

\* C7 witness: an iteration with an empty read right after a transmitted
\* frame has passed the gate without transmitting again
NeverSentTwiceWitness ==
    /\ pc = "update"
    /\ bytes_read <= 0
    /\ gate = 0
    /\ nStartTx = 1
    /\ nData = 1
    /\ nDone = 1

BringUpToInit == <<"spi_fastrate", "reset", "sleep", "checkidlerc", "initialise">>
BringUpToConfigure == BringUpToInit \o <<"setleds", "configure">>

\* no driver call of the transmit loop has been made
NoLoopActivity ==
    /\ cyc = << >>
    /\ gate = -1
    /\ rtt_req = 0
    /\ nData = 0
    /\ nStartTx = 0
    /\ nDone = 0
    /\ tx_buffer = NoTxBuffer
    /\ tx_fctrl = NoTxFctrl
    /\ ~tx_active
    /\ ~txfrs

\* C8 (fatal bring-up failure halts): once dwt_initialise has reported
\* DWT_ERROR or dwt_configure has reported rejection, the program is in its
\* halt loop and stays there; the driver calls made are exactly those up to
\* the failed one (no configuration after an initialisation error, no RF
\* tuning), and update_tx_msg and the transmit calls never happen.
FatalHalts ==
    /\ init_failed => (pc = "halt_init" /\ calls = BringUpToInit /\ NoLoopActivity)
    /\ cfg_failed => (pc = "halt_cfg" /\ calls = BringUpToConfigure /\ NoLoopActivity)
    /\ pc \in HaltPcs => (init_failed \/ cfg_failed)

\* C8 witness: dwt_configure has reported rejection and the program spins in
\* the halt loop
FatalHaltsWitness ==
    /\ cfg_failed
    /\ pc = "halt_cfg"
    /\ calls[Len(calls)] = "configure"

IsBringUpStep(c) ==
    c \in {"reset", "checkidlerc", "initialise", "configure", "configuretxrf"}
BringUpSteps == <<"reset", "checkidlerc", "initialise", "configure", "configuretxrf">>

\* C9 (bring-up order): reset, idle-wait, initialisation, configuration and
\* RF tuning happen in this order, each once; the transmit loop (and so every
\* transmit attempt) is entered only after a successful configuration
\* followed by RF tuning, and no bring-up step happens again afterwards.
BringUpOrder ==
    /\ IsPrefix(SelectSeq(calls, IsBringUpStep), BringUpSteps)
    /\ pc \in LoopPcs
          => /\ SelectSeq(calls, IsBringUpStep) = BringUpSteps
             /\ ~init_failed
             /\ ~cfg_failed
    /\ (nStartTx > 0 \/ cyc # << >> \/ rtt_req # 0) => pc \in LoopPcs

\* C9 witness: a second transmission is outstanding and bring-up has run
\* exactly once
BringUpOrderWitness ==
    /\ pc = "poll"
    /\ nStartTx = 2
    /\ SelectSeq(calls, IsBringUpStep) = BringUpSteps
    /\ Len(calls) = 8

CycleSteps ==
    << <<"writetxdata", TX_MSG_SIZE>>, <<"writetxfctrl", FRAME_LENGTH>>,
       <<"starttx", 0>>, <<"txfrs_seen", 0>>, <<"clear", 0>>,
       <<"sleep", TX_DELAY_MS>>, <<"sn_inc", 0>>, <<"tag_reset", 0>> >>

\* C10 (order of a transmitting cycle): after the gate found the tag ready
\* the steps are: write TX data, write frame control, start TX, TXFRS seen,
\* clear TXFRS, sleep TX_DELAY_MS, increment the sequence number, reset the
\* tag, in this order with nothing in between; until the increment (so until
\* after the completion was observed) tag and sequence number are those
\* handed to the radio.
CycleOrder ==
    /\ IsPrefix(cyc, CycleSteps)
    /\ (pc = "update" /\ gate = READY_TAG) => cyc = CycleSteps
    /\ (pc \in TxPcs /\ ~HasStep(cyc, "tag_reset")) => tx_msg[0] = gate
    /\ (HasStep(cyc, "writetxdata") /\ ~HasStep(cyc, "sn_inc"))
          => /\ tx_msg[0] = tx_buffer.data[1]
             /\ tx_msg[BLINK_FRAME_SN_IDX] = tx_buffer.data[BLINK_FRAME_SN_IDX + 1]
    /\ (HasStep(cyc, "sn_inc") \/ HasStep(cyc, "tag_reset")) => HasStep(cyc, "txfrs_seen")

\* C10 witness: a transmitting cycle has run through all eight steps
CycleOrderWitness ==
    /\ pc = "update"
    /\ gate = READY_TAG
    /\ cyc = CycleSteps
    /\ nDone = 2

\* C11 (completion event is consumed): the wait is left only with TXFRS
\* observed set and the next step clears it; TXFRS is set only while the
\* loop is in the wait or about to clear it, so it is clear at every
\* dwt_starttx, and a TXFRS seen in the wait belongs to the transmission
\* started in this cycle (started one more than completed, none in flight).
TxfrsConsumed ==
    /\ pc = "clear" => (txfrs /\ ~tx_active)
    /\ txfrs => pc \in {"poll", "clear"}
    /\ pc = "starttx" => (~txfrs /\ ~tx_active)
    /\ (pc = "poll" /\ txfrs) => (~tx_active /\ nStartTx = nDone + 1)
    /\ pc = "sleep" => (cyc[Len(cyc)][1] = "clear" /\ ~txfrs)

\* C11 witness: the loop is about to start its second transmission and the
\* TXFRS of the first one is gone
TxfrsConsumedWitness ==
    /\ pc = "starttx"
    /\ nDone = 1
    /\ nStartTx = 1
    /\ ~txfrs

\* C12 (idle cycles do nothing): in an iteration whose read returns no data
\* (the tag being not ready on entry) neither update_tx_msg nor the gate
\* changes the frame, the device or the number of transmissions started, no
\* step of the transmit branch (in particular no sleep) is taken, and the
\* gate leads straight back to update_tx_msg; this holds iteration after
\* iteration.
IdleCyclesDoNothing ==
    [][ /\ (pc = "update" /\ pc' = "check" /\ bytes_read' <= 0)
            => /\ tx_msg' = tx_msg
               /\ nStartTx' = nStartTx
               /\ deviceVars' = deviceVars
               /\ cyc' = << >>
        /\ (pc = "check" /\ pc' # "check" /\ bytes_read <= 0)
            => /\ pc' = "update"
               /\ tx_msg' = tx_msg
               /\ nStartTx' = nStartTx
               /\ nDone' = nDone
               /\ deviceVars' = deviceVars
               /\ cyc' = << >>
      ]_vars

\* C12 witness: two idle iterations in a row after one transmitted frame:
\* still one transmission, sequence number still 1
IdleCyclesDoNothingWitness ==
    /\ pc = "update"
    /\ idleRun = 2
    /\ nStartTx = 1
    /\ tx_msg[BLINK_FRAME_SN_IDX] = 1
    /\ cyc = << >>

\* the payload capacity the specification states: L - 2 with one byte reserved
SpecCapacity == TX_MSG_SIZE - 3

\* C13 (trailing zero pad is preserved): after every update_tx_msg that read
\* data at most SpecCapacity (9) input bytes were copied and tx_msg[11] is 0.
TrailingPadPreserved ==
    (pc = "check" /\ bytes_read > 0)
       => /\ Cardinality(sreads) <= SpecCapacity
          /\ tx_msg[TX_MSG_SIZE - 1] = 0

\* C14 (no input is serviced while a transmission is outstanding): from
\* dwt_starttx until TXFRS has been cleared the frame and the variables of
\* update_tx_msg do not change and update_tx_msg is not entered; the wait
\* is left only when TXFRS is set, there is no other way out.
NoInputWhileOutstanding ==
    [][ /\ pc \in {"poll", "clear"}
            => /\ tx_msg' = tx_msg
               /\ ingestVars' = ingestVars
               /\ nData' = nData
               /\ pc' \in {"poll", "clear", "sleep"}
        /\ (pc = "poll" /\ ~txfrs) => pc' = "poll"
      ]_vars

\* C14 witness: the second transmission is in flight, TXFRS not yet set, the
\* loop has polled and is still in the wait
NoInputWhileOutstandingWitness ==
    /\ pc = "poll"
    /\ tx_active
    /\ ~txfrs
    /\ nStartTx = 2
    /\ cyc[Len(cyc)][1] = "starttx"

PreIdlePcs == {"start", "reset", "sleep2", "idlewait"}
BringUpToIdle == <<"spi_fastrate", "reset", "sleep", "checkidlerc">>

\* C15 (idle gate of bring-up): as long as the device has not reported
\* IDLE_RC the program is at or before the idle wait and has called neither
\* dwt_initialise, dwt_configure, dwt_configuretxrf nor anything of the
\* loop; once past the wait, reset, the settle delay and the idle query
\* have happened, in this order, before anything else.
IdleGate ==
    /\ ~idle_rc
          => /\ pc \in PreIdlePcs
             /\ IsPrefix(calls, BringUpToIdle)
             /\ NoLoopActivity
    /\ pc \notin PreIdlePcs => (idle_rc /\ IsPrefix(BringUpToIdle, calls))

\* C15 witness: the idle query has been made, the device is not idle yet,
\* and the program is still in the wait
IdleGateWitness ==
    /\ pc = "idlewait"
    /\ ~idle_rc
    /\ calls = BringUpToIdle

\* the frame as the sequence of its bytes
FrameBytes(msg) == [j \in 1..TX_MSG_SIZE |-> msg[j - 1]]

\* C16 (content of what is sent): while the k-th transmission is started
\* (k = nStartTx) the device holds the 12 bytes of the frame at offset 0,
\* frame control says TX_MSG_SIZE + FCS_LEN, offset 0, no ranging, and the
\* bytes are tag 0xC5, sequence number (k - 1) mod 256, then the bytes of
\* the latest read that returned data, zero-padded.
SentContent ==
    (pc = "poll")
       => /\ tx_buffer.offset = 0
          /\ Len(tx_buffer.data) = TX_MSG_SIZE
          /\ tx_fctrl = [len |-> TX_MSG_SIZE + FCS_LEN, offset |-> 0, ranging |-> 0]
          /\ tx_buffer.data[1] = READY_TAG
          /\ tx_buffer.data[2] = (nStartTx - 1) % 256
          /\ bytes_read > 0
          /\ \A j \in 1..(TX_MSG_SIZE - 2) :
                tx_buffer.data[j + 2] = IF j <= bytes_read THEN rtt_in[j] ELSE 0

\* C16 witness: the third frame, carrying sequence number 2 and the 8 bytes
\* 250 .. 255, 0, 1 followed by two zero bytes
SentContentWitness ==
    /\ pc = "poll"
    /\ nStartTx = 3
    /\ rtt_in = InputOf(8, BaseHigh)
    /\ tx_buffer.data[2] = 2
    /\ tx_buffer.data[3] = BaseHigh
    /\ tx_buffer.data[TX_MSG_SIZE] = 0

\* C17 (progress under a responsive device): with the fairness of LiveSpec,
\* and provided dwt_initialise and dwt_configure never report failure, the
\* loop is at update_tx_msg infinitely often, every read that returned data
\* leads to a started transmission holding that frame, and every started
\* transmission leads back to update_tx_msg with the tag reset to 0.
Progress ==
    [](~init_failed /\ ~cfg_failed)
       => /\ []<>(pc = "update")
          /\ (pc = "check" /\ bytes_read > 0)
                ~> (pc = "poll" /\ tx_buffer.data = FrameBytes(tx_msg))
          /\ (pc = "poll") ~> (pc = "update" /\ tx_msg[0] = 0)

\* C17 witness: a second data read has been transmitted, its cycle is over
\* and the loop is back at update_tx_msg with the tag reset
ProgressWitness ==
    /\ pc = "update"
    /\ nData = 2
    /\ nDone = 2
    /\ tx_msg[0] = 0
    /\ tx_buffer.data[1] = READY_TAG

\* C18 (tag domain): tx_msg[0] is always 0 or 0xC5, so the gate
\* tx_msg[0] != 0 agrees with "the tag is the ready sentinel".
TagDomain ==
    /\ tx_msg[0] \in {0, READY_TAG}
    /\ (tx_msg[0] # 0) <=> (tx_msg[0] = READY_TAG)
    /\ gate \in {-1, 0, READY_TAG}

\* C18 witness: the tag is 0xC5 again after it had been reset to 0 by a
\* completed cycle
TagDomainWitness ==
    /\ pc = "check"
    /\ tx_msg[0] = READY_TAG
    /\ nDone = 1

\* C19 (sequence-number frame condition): tx_msg[1] changes only in the
\* post-transmit increment, by one modulo 256; update_tx_msg and every other
\* step leave it as it is.
SnFrameCondition ==
    [][ tx_msg'[BLINK_FRAME_SN_IDX] # tx_msg[BLINK_FRAME_SN_IDX]
           => /\ pc = "sn_inc"
              /\ pc' = "tag_reset"
              /\ tx_msg'[BLINK_FRAME_SN_IDX] = (tx_msg[BLINK_FRAME_SN_IDX] + 1) % 256
      ]_vars

\* C19 witness: a full-size read has rewritten payload and tag while the
\* sequence number of three completed cycles is still in place
SnFrameConditionWitness ==
    /\ pc = "check"
    /\ bytes_read = RTT_READ_SIZE
    /\ fwrites = {0} \cup 2..(TX_MSG_SIZE - 1)
    /\ nDone = 3
    /\ tx_msg[BLINK_FRAME_SN_IDX] = 3

====
